---------------------------- MODULE Spec2Model ----------------------------
(***************************************************************************)
(* The configuration store of the streaming-avatar demo (a zustand store   *)
(* wrapped in the persist middleware) and the part of ConfigurationPanel   *)
(* that validates the configuration and starts a streaming session.        *)
(*                                                                         *)
(* A JavaScript object is a function from its keys to its values.  A       *)
(* property whose value is undefined is modelled as an absent key, which   *)
(* is how JSON.stringify and an optional property (knowledge_id?: string)  *)
(* treat it.  An unset environment variable is the empty string: both are  *)
(* falsy, and the store only ever reads them through "||" and Number().    *)
(***************************************************************************)
EXTENDS Integers, Sequences, FiniteSets, TLC

VARIABLES
    env,               \* import.meta.env, fixed for the life of the build
    storage,           \* localStorage item 'streaming-avatar-config'
    state,             \* the zustand store's state object
    writes,            \* number of storage.setItem calls issued so far
    validationErrors,  \* ConfigurationPanel: useState<string[]>([])
    effectPending,     \* ConfigurationPanel: the validation effect is due
    isStarting,        \* ConfigurationPanel: useState(false)
    startPromise,      \* the promise handleStartStreaming awaits: none, pending,
                       \* fulfilled or rejected
    startCalls,        \* number of startStreaming() calls issued so far
    notifications,     \* number of showError() calls issued so far
    loaded,            \* history: the storage item read at the last process start
    lastOp,            \* history: the last operation, [name, arg, threw]
    writable,          \* whether localStorage accepts writes (quota, private mode)
    ops,               \* number of user-level operations so far
    budget             \* number of user-level operations explored from this start

vars == <<env, storage, state, writes, validationErrors, effectPending,
          isStarting, startPromise, startCalls, notifications, loaded, lastOp,
          writable, ops, budget>>

(***************************************************************************)
(* Bounds of the model.                                                    *)
(***************************************************************************)
MaxOps == 2
MaxOpsWide == 1

(***************************************************************************)
(* The data model: interface ConfigurationState.                           *)
(***************************************************************************)
Fields ==
    {"selectedProvider", "openapiHost", "openapiCredential", "authMethod",
     "avatarId", "voiceId", "knowledgeId", "sessionDuration", "modeType",
     "language", "sceneMode", "e2eType", "backgroundUrl", "voiceUrl",
     "voiceParams", "videoEnabled", "audioEnabled", "videoQuality",
     "audioQuality"}

StreamProviderType == {"agora", "livekit", "trtc"}
AuthMethod == {"token", "apiKey"}
SceneMode == {"fast_dialogue", "meeting"}
E2EType == {"openai"}
Quality == {"low", "medium", "high"}

\* voiceParams: Record<string, unknown>; the values used here are numbers.
NoParams == [k \in {} |-> 0]
SomeParams == [k \in {"speed"} |-> 1]

\* A JavaScript number n/d in lowest terms (d > 0).  sessionDuration is typed
\* number and nothing rounds it, so the field can hold a number that is not
\* whole.
Num(i) == [n |-> i, d |-> 1]

IsInteger(x) == x.d = 1

\* What the user can leave in the Session Duration box, a number input.
DurationTexts == {"", "-1", "0", "1", "1.5", "10"}

\* Number(e.target.value) on the text of a number input.
NumberOfInput(t) ==
    CASE t = ""    -> Num(0)
      [] t = "-1"  -> Num(-1)
      [] t = "0"   -> Num(0)
      [] t = "1"   -> Num(1)
      [] t = "1.5" -> [n |-> 3, d |-> 2]
      [] t = "10"  -> Num(10)

\* The values a type-correct caller passes to each setter.
InputValues(f) ==
    CASE f = "selectedProvider"  -> StreamProviderType
      [] f = "openapiHost"       -> {"", "h"}
      [] f = "openapiCredential" -> {"", "c"}
      [] f = "authMethod"        -> AuthMethod
      [] f = "avatarId"          -> {"", "av1"}
      [] f = "voiceId"           -> {"", "v1"}
      [] f = "knowledgeId"       -> {"", "k1"}
      [] f = "sessionDuration"   -> {NumberOfInput(t) : t \in DurationTexts}
      [] f = "modeType"          -> {0, 1, 2, 3, 5}
      [] f = "language"          -> {"", "en", "zh"}
      [] f = "sceneMode"         -> SceneMode \cup {""}
      [] f = "e2eType"           -> E2EType \cup {""}
      [] f = "backgroundUrl"     -> {"", "bg"}
      [] f = "voiceUrl"          -> {"", "vu"}
      [] f = "voiceParams"       -> {NoParams, SomeParams}
      [] f = "videoEnabled"      -> BOOLEAN
      [] f = "audioEnabled"      -> BOOLEAN
      [] f = "videoQuality"      -> Quality
      [] f = "audioQuality"      -> Quality

(***************************************************************************)
(* JavaScript helpers.                                                     *)
(***************************************************************************)
\* a || b on strings: the empty string is falsy.
StrOr(a, b) == IF a = "" THEN b ELSE a

\* Number(s): [nan, n].  Number("") and Number("0") are 0, a non-numeric
\* string is NaN.
NumberOf(s) ==
    CASE s = ""  -> [nan |-> FALSE, n |-> 0]
      [] s = "0" -> [nan |-> FALSE, n |-> 0]
      [] s = "1" -> [nan |-> FALSE, n |-> 1]
      [] s = "2" -> [nan |-> FALSE, n |-> 2]
      [] s = "3" -> [nan |-> FALSE, n |-> 3]
      [] s = "5" -> [nan |-> FALSE, n |-> 5]
      [] OTHER   -> [nan |-> TRUE, n |-> 0]

\* x || d on numbers: NaN and 0 are falsy.
NumOr(x, d) == IF x.nan \/ x.n = 0 THEN d ELSE x.n

\* zustand set(partial): Object.assign({}, state, partial).
Merge(base, partial) ==
    [k \in DOMAIN base \cup DOMAIN partial |->
        IF k \in DOMAIN partial THEN partial[k] ELSE base[k]]

(***************************************************************************)
(* The store's initial state and its literal defaults.                     *)
(***************************************************************************)
DefaultSessionDuration == 10
DefaultModeType == 2

InitialState(e) ==
    [selectedProvider  |-> StrOr(e.VITE_STREAM_TYPE, "agora"),
     openapiHost       |-> StrOr(e.VITE_OPENAPI_HOST, ""),
     openapiCredential |-> StrOr(e.VITE_OPENAPI_TOKEN, ""),
     authMethod        |-> "token",
     avatarId          |-> StrOr(e.VITE_AVATAR_ID, ""),
     voiceId           |-> StrOr(e.VITE_VOICE_ID, ""),
     knowledgeId       |-> "",
     sessionDuration   |-> Num(DefaultSessionDuration),
     modeType          |-> NumOr(NumberOf(e.VITE_MODE_TYPE), DefaultModeType),
     language          |-> StrOr(e.VITE_LANGUAGE, "en"),
     sceneMode         |-> "",
     e2eType           |-> "",
     backgroundUrl     |-> StrOr(e.VITE_BACKGROUND_URL, ""),
     voiceUrl          |-> StrOr(e.VITE_VOICE_URL, ""),
     voiceParams       |-> NoParams,
     videoEnabled      |-> TRUE,
     audioEnabled      |-> TRUE,
     videoQuality      |-> "medium",
     audioQuality      |-> "medium"]

\* Mutant of ResetValues: a quality literal outside the union type.
ResetValues_badLiteral ==
    [selectedProvider  |-> "agora",
     openapiHost       |-> "",
     openapiCredential |-> "",
     authMethod        |-> "token",
     avatarId          |-> "",
     voiceId           |-> "",
     knowledgeId       |-> "",
     sessionDuration   |-> Num(DefaultSessionDuration),
     modeType          |-> DefaultModeType,
     language          |-> "en",
     sceneMode         |-> "",
     e2eType           |-> "",
     backgroundUrl     |-> "",
     voiceUrl          |-> "",
     voiceParams       |-> NoParams,
     videoEnabled      |-> TRUE,
     audioEnabled      |-> TRUE,
     videoQuality      |-> "default",
     audioQuality      |-> "medium"]

\* Mutant of ResetValues: reset to the initial, environment-derived values.
ResetValues_fromEnv == InitialState(env)

ResetValues ==
    [selectedProvider  |-> "agora",
     openapiHost       |-> "",
     openapiCredential |-> "",
     authMethod        |-> "token",
     avatarId          |-> "",
     voiceId           |-> "",
     knowledgeId       |-> "",
     sessionDuration   |-> Num(DefaultSessionDuration),
     modeType          |-> DefaultModeType,
     language          |-> "en",
     sceneMode         |-> "",
     e2eType           |-> "",
     backgroundUrl     |-> "",
     voiceUrl          |-> "",
     voiceParams       |-> NoParams,
     videoEnabled      |-> TRUE,
     audioEnabled      |-> TRUE,
     videoQuality      |-> "medium",
     audioQuality      |-> "medium"]

(***************************************************************************)
(* Getters and utilities.                                                  *)
(***************************************************************************)
isApiConfigured(s) == s.openapiHost # "" /\ s.openapiCredential # ""

isAvatarConfigured(s) == s.avatarId # ""

\* Mutant of isFullyConfigured: the avatar is not asked for.
isFullyConfigured_noAvatar(s) ==
    s.openapiHost # "" /\ s.openapiCredential # ""

isFullyConfigured(s) ==
    s.openapiHost # "" /\ s.openapiCredential # "" /\ s.avatarId # ""

\* Mutant of getSessionOptions: voice_params and language passed as they are.
getSessionOptions_passThrough(s) ==
    LET all == [avatar_id      |-> s.avatarId,
                duration       |-> s.sessionDuration,
                knowledge_id   |-> s.knowledgeId,
                voice_id       |-> s.voiceId,
                voice_url      |-> s.voiceUrl,
                language       |-> s.language,
                mode_type      |-> s.modeType,
                background_url |-> s.backgroundUrl,
                voice_params   |-> s.voiceParams,
                stream_type    |-> s.selectedProvider,
                scene_mode     |-> s.sceneMode,
                e2e_type       |-> s.e2eType]
        undefined ==
            {k \in {"knowledge_id", "voice_id", "voice_url",
                    "background_url", "scene_mode", "e2e_type"} : all[k] = ""}
    IN  [k \in DOMAIN all \ undefined |-> all[k]]

\* Mutant of getSessionOptions: voice_url is read from the field beside it.
getSessionOptions_pastedField(s) ==
    LET all == [avatar_id      |-> s.avatarId,
                duration       |-> s.sessionDuration,
                knowledge_id   |-> s.knowledgeId,
                voice_id       |-> s.voiceId,
                voice_url      |-> s.voiceId,
                language       |-> s.language,
                mode_type      |-> s.modeType,
                background_url |-> s.backgroundUrl,
                voice_params   |-> s.voiceParams,
                stream_type    |-> s.selectedProvider,
                scene_mode     |-> s.sceneMode,
                e2e_type       |-> s.e2eType]
        undefined ==
            {k \in {"knowledge_id", "voice_id", "voice_url", "language",
                    "background_url", "scene_mode", "e2e_type"} : all[k] = ""}
            \cup (IF Cardinality(DOMAIN s.voiceParams) > 0 THEN {} ELSE {"voice_params"})
    IN  [k \in DOMAIN all \ undefined |-> all[k]]

\* Mutant of getSessionOptions: voice_params is passed even when it has no key.
getSessionOptions_emptyParams(s) ==
    LET all == [avatar_id      |-> s.avatarId,
                duration       |-> s.sessionDuration,
                knowledge_id   |-> s.knowledgeId,
                voice_id       |-> s.voiceId,
                voice_url      |-> s.voiceUrl,
                language       |-> s.language,
                mode_type      |-> s.modeType,
                background_url |-> s.backgroundUrl,
                voice_params   |-> s.voiceParams,
                stream_type    |-> s.selectedProvider,
                scene_mode     |-> s.sceneMode,
                e2e_type       |-> s.e2eType]
        undefined ==
            {k \in {"knowledge_id", "voice_id", "voice_url", "language",
                    "background_url", "scene_mode", "e2e_type"} : all[k] = ""}
    IN  [k \in DOMAIN all \ undefined |-> all[k]]

\* Mutant of getSessionOptions: the credential is sent along with the options.
getSessionOptions_withToken(s) ==
    LET all == [avatar_id      |-> s.avatarId,
                duration       |-> s.sessionDuration,
                knowledge_id   |-> s.knowledgeId,
                voice_id       |-> s.voiceId,
                voice_url      |-> s.voiceUrl,
                language       |-> s.language,
                mode_type      |-> s.modeType,
                background_url |-> s.backgroundUrl,
                voice_params   |-> s.voiceParams,
                stream_type    |-> s.selectedProvider,
                scene_mode     |-> s.sceneMode,
                e2e_type       |-> s.e2eType,
                token          |-> s.openapiCredential]
        undefined ==
            {k \in {"knowledge_id", "voice_id", "voice_url", "language",
                    "background_url", "scene_mode", "e2e_type", "token"} : all[k] = ""}
            \cup (IF Cardinality(DOMAIN s.voiceParams) > 0 THEN {} ELSE {"voice_params"})
    IN  [k \in DOMAIN all \ undefined |-> all[k]]

\* The object literal of getSessionOptions, with the keys whose value is
\* undefined left out.
getSessionOptions(s) ==
    LET all == [avatar_id      |-> s.avatarId,
                duration       |-> s.sessionDuration,
                knowledge_id   |-> s.knowledgeId,
                voice_id       |-> s.voiceId,
                voice_url      |-> s.voiceUrl,
                language       |-> s.language,
                mode_type      |-> s.modeType,
                background_url |-> s.backgroundUrl,
                voice_params   |-> s.voiceParams,
                stream_type    |-> s.selectedProvider,
                scene_mode     |-> s.sceneMode,
                e2e_type       |-> s.e2eType]
        undefined ==
            {k \in {"knowledge_id", "voice_id", "voice_url", "language",
                    "background_url", "scene_mode", "e2e_type"} : all[k] = ""}
            \cup (IF Cardinality(DOMAIN s.voiceParams) > 0 THEN {} ELSE {"voice_params"})
    IN  [k \in DOMAIN all \ undefined |-> all[k]]

ErrHost == "OpenAPI host is required"
ErrToken == "OpenAPI token is required"
ErrApiKey == "API key is required"
ErrAvatar == "Avatar ID is required"
ErrDuration == "Session duration must be greater than 0"
ErrModeType == "Mode type must be between 1 and 3"

\* Mutant of validateConfiguration: "<" for "<=" in the duration check.
validateConfiguration_offByOne(s) ==
    LET e1 == IF s.openapiHost = "" THEN <<ErrHost>> ELSE <<>>
        e2 == IF s.openapiCredential = ""
              THEN e1 \o <<IF s.authMethod = "token" THEN ErrToken ELSE ErrApiKey>>
              ELSE e1
        e3 == IF s.avatarId = "" THEN e2 \o <<ErrAvatar>> ELSE e2
        e4 == IF s.sessionDuration.n < 0 THEN e3 \o <<ErrDuration>> ELSE e3
        errors == IF s.modeType < 1 \/ s.modeType > 3 THEN e4 \o <<ErrModeType>> ELSE e4
    IN  [isValid |-> Len(errors) = 0, errors |-> errors]

\* Mutant of validateConfiguration: the avatar id is not checked.
validateConfiguration_noAvatarCheck(s) ==
    LET e1 == IF s.openapiHost = "" THEN <<ErrHost>> ELSE <<>>
        e2 == IF s.openapiCredential = ""
              THEN e1 \o <<IF s.authMethod = "token" THEN ErrToken ELSE ErrApiKey>>
              ELSE e1
        e4 == IF s.sessionDuration.n <= 0 THEN e2 \o <<ErrDuration>> ELSE e2
        errors == IF s.modeType < 1 \/ s.modeType > 3 THEN e4 \o <<ErrModeType>> ELSE e4
    IN  [isValid |-> Len(errors) = 0, errors |-> errors]

\* Mutant of validateConfiguration: isValid is computed before the last check.
validateConfiguration_validBeforeMode(s) ==
    LET e1 == IF s.openapiHost = "" THEN <<ErrHost>> ELSE <<>>
        e2 == IF s.openapiCredential = ""
              THEN e1 \o <<IF s.authMethod = "token" THEN ErrToken ELSE ErrApiKey>>
              ELSE e1
        e3 == IF s.avatarId = "" THEN e2 \o <<ErrAvatar>> ELSE e2
        e4 == IF s.sessionDuration.n <= 0 THEN e3 \o <<ErrDuration>> ELSE e3
        errors == IF s.modeType < 1 \/ s.modeType > 3 THEN e4 \o <<ErrModeType>> ELSE e4
    IN  [isValid |-> Len(e4) = 0, errors |-> errors]

validateConfiguration(s) ==
    LET e1 == IF s.openapiHost = "" THEN <<ErrHost>> ELSE <<>>
        e2 == IF s.openapiCredential = ""
              THEN e1 \o <<IF s.authMethod = "token" THEN ErrToken ELSE ErrApiKey>>
              ELSE e1
        e3 == IF s.avatarId = "" THEN e2 \o <<ErrAvatar>> ELSE e2
        e4 == IF s.sessionDuration.n <= 0 THEN e3 \o <<ErrDuration>> ELSE e3
        errors == IF s.modeType < 1 \/ s.modeType > 3 THEN e4 \o <<ErrModeType>> ELSE e4
    IN  [isValid |-> Len(errors) = 0, errors |-> errors]

(***************************************************************************)
(* The persist middleware: partialize, JSON storage, hydration.            *)
(***************************************************************************)
\* Mutant of partialize: the credential is kept out of storage.
partialize_noCredential(s) ==
    [f \in Fields \ {"openapiCredential"} |-> s[f]]

partialize(s) ==
    [selectedProvider  |-> s.selectedProvider,
     openapiHost       |-> s.openapiHost,
     openapiCredential |-> s.openapiCredential,
     authMethod        |-> s.authMethod,
     avatarId          |-> s.avatarId,
     voiceId           |-> s.voiceId,
     knowledgeId       |-> s.knowledgeId,
     sessionDuration   |-> s.sessionDuration,
     modeType          |-> s.modeType,
     language          |-> s.language,
     sceneMode         |-> s.sceneMode,
     e2eType           |-> s.e2eType,
     backgroundUrl     |-> s.backgroundUrl,
     voiceUrl          |-> s.voiceUrl,
     voiceParams       |-> s.voiceParams,
     videoEnabled      |-> s.videoEnabled,
     audioEnabled      |-> s.audioEnabled,
     videoQuality      |-> s.videoQuality,
     audioQuality      |-> s.audioQuality]

\* The JSON type of each persisted field's value (typeof, which TLA+ lacks).
JsonType(f) ==
    CASE f \in {"sessionDuration", "modeType"}   -> "number"
      [] f \in {"videoEnabled", "audioEnabled"}  -> "boolean"
      [] f = "voiceParams"                       -> "object"
      [] OTHER                                   -> "string"

\* JSON.stringify of the partialized state: every value becomes a JSON value,
\* a pair of its JSON type and its text.
JsonStringify(snapshot) ==
    [f \in DOMAIN snapshot |->
        IF JsonType(f) = "object"
        THEN <<"object", [k \in DOMAIN snapshot[f] |-> <<"number", snapshot[f][k]>>]>>
        ELSE <<JsonType(f), snapshot[f]>>]

\* JSON.parse: every JSON value becomes the JavaScript value it denotes,
\* whatever key it is stored under.
JsonParse(doc) ==
    [f \in DOMAIN doc |->
        IF doc[f][1] = "object"
        THEN [k \in DOMAIN doc[f][2] |-> doc[f][2][k][2]]
        ELSE doc[f][2]]

NoDoc == [k \in {} |-> <<"string", "">>]

\* The three things localStorage can hold under the store's name.
ItemAbsent == [kind |-> "absent", doc |-> NoDoc]
ItemCorrupt == [kind |-> "corrupt", doc |-> NoDoc]
ItemOf(doc) == [kind |-> "json", doc |-> doc]

\* setItem: the item written for state s.
setItem(s) == ItemOf(JsonStringify(partialize(s)))

\* Mutant of merge: the spread operands in the other order.
merge_currentWins(persistedState, currentState) == Merge(persistedState, currentState)

\* Mutant of merge: a snapshot with keys the state lacks is thrown away.
merge_knownOnly(persistedState, currentState) ==
    IF DOMAIN persistedState \subseteq DOMAIN currentState
    THEN Merge(currentState, persistedState)
    ELSE currentState

\* persist's default merge option: { ...currentState, ...persistedState }.
merge(persistedState, currentState) == Merge(currentState, persistedState)

\* Mutant of hydrate: an item that does not parse resets the store to the
\* literal defaults.
hydrate_corruptResets(e, item) ==
    CASE item.kind = "json"    -> merge(JsonParse(item.doc), InitialState(e))
      [] item.kind = "corrupt" -> ResetValues
      [] OTHER                 -> InitialState(e)

\* hydrate: the state of a store created in environment e over item.
\* An absent item leaves the initial state; an item that does not parse
\* throws inside hydrate, which catches it and leaves the initial state.
hydrate(e, item) ==
    IF item.kind = "json"
    THEN merge(JsonParse(item.doc), InitialState(e))
    ELSE InitialState(e)

(***************************************************************************)
(* The environments and stored items a process can start from.             *)
(***************************************************************************)
EnvUnset ==
    [VITE_STREAM_TYPE |-> "", VITE_OPENAPI_HOST |-> "", VITE_OPENAPI_TOKEN |-> "",
     VITE_AVATAR_ID |-> "", VITE_VOICE_ID |-> "", VITE_MODE_TYPE |-> "",
     VITE_LANGUAGE |-> "", VITE_BACKGROUND_URL |-> "", VITE_VOICE_URL |-> ""]

EnvDemo ==
    [VITE_STREAM_TYPE |-> "livekit", VITE_OPENAPI_HOST |-> "h", VITE_OPENAPI_TOKEN |-> "c",
     VITE_AVATAR_ID |-> "av1", VITE_VOICE_ID |-> "v1", VITE_MODE_TYPE |-> "1",
     VITE_LANGUAGE |-> "zh", VITE_BACKGROUND_URL |-> "bg", VITE_VOICE_URL |-> "vu"]

\* A build whose variables were mistyped: nothing checks them.
EnvOdd ==
    [VITE_STREAM_TYPE |-> "webrtc", VITE_OPENAPI_HOST |-> "h", VITE_OPENAPI_TOKEN |-> "",
     VITE_AVATAR_ID |-> "", VITE_VOICE_ID |-> "", VITE_MODE_TYPE |-> "5",
     VITE_LANGUAGE |-> "", VITE_BACKGROUND_URL |-> "", VITE_VOICE_URL |-> ""]

EnvZero ==
    [VITE_STREAM_TYPE |-> "trtc", VITE_OPENAPI_HOST |-> "", VITE_OPENAPI_TOKEN |-> "c",
     VITE_AVATAR_ID |-> "av1", VITE_VOICE_ID |-> "", VITE_MODE_TYPE |-> "0",
     VITE_LANGUAGE |-> "en", VITE_BACKGROUND_URL |-> "", VITE_VOICE_URL |-> ""]

EnvNaN == [EnvUnset EXCEPT !.VITE_MODE_TYPE = "two"]

Envs == {EnvUnset, EnvDemo, EnvOdd, EnvZero, EnvNaN}

\* A state an earlier run of the program saved.
SavedState ==
    [selectedProvider  |-> "trtc",
     openapiHost       |-> "h",
     openapiCredential |-> "c",
     authMethod        |-> "apiKey",
     avatarId          |-> "av1",
     voiceId           |-> "",
     knowledgeId       |-> "k1",
     sessionDuration   |-> Num(1),
     modeType          |-> 3,
     language          |-> "",
     sceneMode         |-> "meeting",
     e2eType           |-> "openai",
     backgroundUrl     |-> "",
     voiceUrl          |-> "vu",
     voiceParams       |-> SomeParams,
     videoEnabled      |-> FALSE,
     audioEnabled      |-> TRUE,
     videoQuality      |-> "high",
     audioQuality      |-> "low"]

SavedDoc == JsonStringify(SavedState)

Restrict(doc, keys) == [k \in DOMAIN doc \cap keys |-> doc[k]]

\* What an older release, which knew fewer fields, saved.
OldKeys == {"openapiHost", "openapiCredential", "avatarId", "sessionDuration",
            "modeType", "language", "voiceParams"}

\* What another release saved beside the fields: keys this one does not know.
UnknownDoc ==
    [k \in {"theme", "avatarVideoUrl"} |->
        IF k = "theme" THEN <<"string", "dark">> ELSE <<"string", "u">>]

StoredItems ==
    {ItemAbsent, ItemCorrupt,
     ItemOf(SavedDoc),
     ItemOf(Restrict(SavedDoc, OldKeys)),
     ItemOf(Merge(SavedDoc, UnknownDoc)),
     ItemOf(Merge(Restrict(SavedDoc, OldKeys), UnknownDoc))}

(***************************************************************************)
(* The panel's validation effect and its dependency list.                  *)
(***************************************************************************)
EffectDeps(s) ==
    <<s.openapiCredential, s.openapiHost, s.avatarId, s.voiceId, s.knowledgeId>>

(***************************************************************************)
(* Process start: create the store (hydrating it) and mount the panel.     *)
(***************************************************************************)
\* Every start is explored for MaxOpsWide operations, these for MaxOps.
DeepStarts ==
    {[env |-> EnvDemo, item |-> ItemAbsent, writable |-> TRUE],
     [env |-> EnvUnset, item |-> ItemAbsent, writable |-> TRUE],
     [env |-> EnvUnset, item |-> ItemOf(Merge(SavedDoc, UnknownDoc)), writable |-> TRUE],
     [env |-> EnvOdd, item |-> ItemCorrupt, writable |-> FALSE]}

WideStarts == [env : Envs, item : StoredItems, writable : BOOLEAN]

Init ==
    /\ \E s \in WideStarts :
          /\ env = s.env
          /\ storage = s.item
          /\ writable = s.writable
          /\ budget \in {MaxOpsWide} \cup (IF s \in DeepStarts THEN {MaxOps} ELSE {})
    /\ state = hydrate(env, storage)
    /\ loaded = storage
    /\ writes = 0
    /\ validationErrors = <<>>
    /\ effectPending = TRUE
    /\ isStarting = FALSE
    /\ startPromise = "none"
    /\ startCalls = 0
    /\ notifications = 0
    /\ lastOp = [name |-> "create", arg |-> "", threw |-> FALSE]
    /\ ops = 0

\* A user-level event is handled once the effects of the last render have run.
Idle == ops < budget /\ ~effectPending

\* Mutant of PersistedSet: no write when the new state equals the old one.
PersistedSet_skipUnchanged(name, arg, partial) ==
    /\ Idle
    /\ state' = Merge(state, partial)
    /\ writes' = IF state' = state THEN writes ELSE writes + 1
    /\ storage' = IF writable /\ state' # state THEN setItem(state') ELSE storage
    /\ lastOp' = [name |-> name, arg |-> arg, threw |-> ~writable]
    /\ effectPending' = (EffectDeps(state') # EffectDeps(state))
    /\ ops' = ops + 1
    /\ UNCHANGED <<env, loaded, validationErrors, isStarting, startPromise, startCalls,
                   notifications, writable, budget>>

\* The set the persist middleware hands to the store's creator: set(partial),
\* then setItem(); a setItem that throws does so after the state has changed.
PersistedSet(name, arg, partial) ==
    /\ Idle
    /\ state' = Merge(state, partial)
    /\ writes' = writes + 1
    /\ storage' = IF writable THEN setItem(state') ELSE storage
    /\ lastOp' = [name |-> name, arg |-> arg, threw |-> ~writable]
    /\ effectPending' = (EffectDeps(state') # EffectDeps(state))
    /\ ops' = ops + 1
    /\ UNCHANGED <<env, loaded, validationErrors, isStarting, startPromise, startCalls,
                   notifications, writable, budget>>

(***************************************************************************)
(* Actions of the store.                                                   *)
(***************************************************************************)
setSelectedProvider(provider) ==
    PersistedSet("setSelectedProvider", provider, [selectedProvider |-> provider])
setOpenapiHost(host) ==
    PersistedSet("setOpenapiHost", host, [openapiHost |-> host])
setOpenapiCredential(credential) ==
    PersistedSet("setOpenapiCredential", credential, [openapiCredential |-> credential])
setAuthMethod(method) ==
    PersistedSet("setAuthMethod", method, [authMethod |-> method])
setAvatarId(avatarId) ==
    PersistedSet("setAvatarId", avatarId, [avatarId |-> avatarId])
setVoiceId(voiceId) ==
    PersistedSet("setVoiceId", voiceId, [voiceId |-> voiceId])
setKnowledgeId(knowledgeId) ==
    PersistedSet("setKnowledgeId", knowledgeId, [knowledgeId |-> knowledgeId])
\* Mutant of setSessionDuration: the duration is clamped to at least 1.
setSessionDuration_clamped(duration) ==
    PersistedSet("setSessionDuration", duration,
                 [sessionDuration |-> IF duration.n < duration.d THEN Num(1) ELSE duration])
setSessionDuration(duration) ==
    PersistedSet("setSessionDuration", duration, [sessionDuration |-> duration])
setModeType(modeType) ==
    PersistedSet("setModeType", modeType, [modeType |-> modeType])
setLanguage(language) ==
    PersistedSet("setLanguage", language, [language |-> language])
\* Mutant of setSceneMode: leaving fast dialogue clears the e2e type.
setSceneMode_coupled(sceneMode) ==
    PersistedSet("setSceneMode", sceneMode,
                 IF sceneMode = "fast_dialogue"
                 THEN [sceneMode |-> sceneMode]
                 ELSE [sceneMode |-> sceneMode, e2eType |-> ""])
setSceneMode(sceneMode) ==
    PersistedSet("setSceneMode", sceneMode, [sceneMode |-> sceneMode])
setE2eType(e2eType) ==
    PersistedSet("setE2eType", e2eType, [e2eType |-> e2eType])
setBackgroundUrl(url) ==
    PersistedSet("setBackgroundUrl", url, [backgroundUrl |-> url])
\* Mutant of setVoiceUrl: the neighbouring setter's key was pasted.
setVoiceUrl_pastedKey(url) ==
    PersistedSet("setVoiceUrl", url, [backgroundUrl |-> url])
setVoiceUrl(url) ==
    PersistedSet("setVoiceUrl", url, [voiceUrl |-> url])
setVoiceParams(params) ==
    PersistedSet("setVoiceParams", params, [voiceParams |-> params])
setVideoEnabled(enabled) ==
    PersistedSet("setVideoEnabled", enabled, [videoEnabled |-> enabled])
setAudioEnabled(enabled) ==
    PersistedSet("setAudioEnabled", enabled, [audioEnabled |-> enabled])
setVideoQuality(quality) ==
    PersistedSet("setVideoQuality", quality, [videoQuality |-> quality])
setAudioQuality(quality) ==
    PersistedSet("setAudioQuality", quality, [audioQuality |-> quality])

resetToDefaults == PersistedSet("resetToDefaults", "", ResetValues)

\* The derived queries: each reads get() and returns a value computed from it.
QueryNames ==
    {"isApiConfigured", "isAvatarConfigured", "isFullyConfigured",
     "getSessionOptions", "validateConfiguration"}

QueryResult(name, s) ==
    CASE name = "isApiConfigured"       -> isApiConfigured(s)
      [] name = "isAvatarConfigured"    -> isAvatarConfigured(s)
      [] name = "isFullyConfigured"     -> isFullyConfigured(s)
      [] name = "getSessionOptions"     -> getSessionOptions(s)
      [] name = "validateConfiguration" -> validateConfiguration(s)

\* Mutant of Query: validateConfiguration keeps its errors in the store.
Query_cachesErrors(name) ==
    /\ ops < budget
    /\ lastOp' = [name |-> name, arg |-> QueryResult(name, state), threw |-> FALSE]
    /\ ops' = ops + 1
    /\ IF name = "validateConfiguration"
       THEN /\ state' = Merge(state, [lastErrors |-> validateConfiguration(state).errors])
            /\ writes' = writes + 1
            /\ storage' = IF writable THEN setItem(state') ELSE storage
       ELSE UNCHANGED <<state, writes, storage>>
    /\ UNCHANGED <<env, validationErrors, effectPending, isStarting, startPromise,
                   startCalls, notifications, loaded, writable, budget>>

\* A caller (the panel, the streaming context) calls a derived query: none of
\* them calls set.
Query(name) ==
    /\ ops < budget
    /\ lastOp' = [name |-> name, arg |-> QueryResult(name, state), threw |-> FALSE]
    /\ ops' = ops + 1
    /\ UNCHANGED <<env, storage, state, writes, validationErrors, effectPending,
                   isStarting, startPromise, startCalls, notifications, loaded, writable,
                   budget>>

\* The page is reloaded: the store is created again over what storage holds.
Reload ==
    /\ ops < budget
    /\ state' = hydrate(env, storage)
    /\ loaded' = storage
    /\ validationErrors' = <<>>
    /\ effectPending' = TRUE
    /\ isStarting' = FALSE
    /\ startPromise' = "none"
    /\ lastOp' = [name |-> "create", arg |-> "", threw |-> FALSE]
    /\ ops' = ops + 1
    /\ UNCHANGED <<env, storage, writes, startCalls, notifications, writable, budget>>

(***************************************************************************)
(* Actions of the panel.                                                   *)
(***************************************************************************)
\* useEffect(() => setValidationErrors(validateConfiguration().errors), deps)
ValidationEffect ==
    /\ effectPending
    /\ validationErrors' = validateConfiguration(state).errors
    /\ effectPending' = FALSE
    /\ UNCHANGED <<env, storage, state, writes, isStarting, startPromise, startCalls,
                   notifications, loaded, lastOp, writable, ops, budget>>

\* disabled={!isFullyConfigured() || validationErrors.length > 0 || isStarting}
StartDisabled ==
    ~isFullyConfigured(state) \/ Len(validationErrors) > 0 \/ isStarting

\* handleStartStreaming up to its await.
handleStartStreaming ==
    IF ~isFullyConfigured(state) \/ Len(validationErrors) > 0
    THEN /\ notifications' = notifications + 1
         /\ lastOp' = [name |-> "startRefused", arg |-> "", threw |-> FALSE]
         /\ UNCHANGED <<isStarting, startPromise, startCalls>>
    ELSE /\ isStarting' = TRUE
         /\ startPromise' = "pending"
         /\ startCalls' = startCalls + 1
         /\ lastOp' = [name |-> "startStreaming", arg |-> "", threw |-> FALSE]
         /\ UNCHANGED notifications

ClickStart ==
    /\ Idle
    /\ ~StartDisabled
    /\ handleStartStreaming
    /\ ops' = ops + 1
    /\ UNCHANGED <<env, storage, state, writes, validationErrors, effectPending, loaded,
                   writable, budget>>

\* The promise of startStreaming() settles, one way or the other.  That is
\* the streaming context's doing; nothing in the panel makes it happen.
StartSettles ==
    /\ startPromise = "pending"
    /\ startPromise' \in {"fulfilled", "rejected"}
    /\ UNCHANGED <<env, storage, state, writes, validationErrors, effectPending,
                   isStarting, startCalls, notifications, loaded, lastOp, writable,
                   ops, budget>>

\* The await resumes on a fulfilled promise: finally { setIsStarting(false) }.
StartResolved ==
    /\ isStarting
    /\ startPromise = "fulfilled"
    /\ isStarting' = FALSE
    /\ startPromise' = "none"
    /\ lastOp' = [name |-> "startResolved", arg |-> "", threw |-> FALSE]
    /\ UNCHANGED <<env, storage, state, writes, validationErrors, effectPending,
                   startCalls, notifications, loaded, writable, ops, budget>>

\* Mutant of StartRejected: setIsStarting(false) at the end of the try block
\* instead of in a finally.
StartRejected_noFinally ==
    /\ isStarting
    /\ startPromise = "rejected"
    /\ startPromise' = "none"
    /\ notifications' = notifications + 1
    /\ lastOp' = [name |-> "startRejected", arg |-> "", threw |-> FALSE]
    /\ UNCHANGED <<env, storage, state, writes, validationErrors, effectPending,
                   isStarting, startCalls, loaded, writable, ops, budget>>

\* The await resumes on a rejected promise: catch { showError(...) }
\* finally { setIsStarting(false) }.
StartRejected ==
    /\ isStarting
    /\ startPromise = "rejected"
    /\ isStarting' = FALSE
    /\ startPromise' = "none"
    /\ notifications' = notifications + 1
    /\ lastOp' = [name |-> "startRejected", arg |-> "", threw |-> FALSE]
    /\ UNCHANGED <<env, storage, state, writes, validationErrors, effectPending,
                   startCalls, loaded, writable, ops, budget>>

Next ==
    \/ \E v \in InputValues("selectedProvider") : setSelectedProvider(v)
    \/ \E v \in InputValues("openapiHost") : setOpenapiHost(v)
    \/ \E v \in InputValues("openapiCredential") : setOpenapiCredential(v)
    \/ \E v \in InputValues("authMethod") : setAuthMethod(v)
    \/ \E v \in InputValues("avatarId") : setAvatarId(v)
    \/ \E v \in InputValues("voiceId") : setVoiceId(v)
    \/ \E v \in InputValues("knowledgeId") : setKnowledgeId(v)
    \/ \E v \in InputValues("sessionDuration") : setSessionDuration(v)
    \/ \E v \in InputValues("modeType") : setModeType(v)
    \/ \E v \in InputValues("language") : setLanguage(v)
    \/ \E v \in InputValues("sceneMode") : setSceneMode(v)
    \/ \E v \in InputValues("e2eType") : setE2eType(v)
    \/ \E v \in InputValues("backgroundUrl") : setBackgroundUrl(v)
    \/ \E v \in InputValues("voiceUrl") : setVoiceUrl(v)
    \/ \E v \in InputValues("voiceParams") : setVoiceParams(v)
    \/ \E v \in InputValues("videoEnabled") : setVideoEnabled(v)
    \/ \E v \in InputValues("audioEnabled") : setAudioEnabled(v)
    \/ \E v \in InputValues("videoQuality") : setVideoQuality(v)
    \/ \E v \in InputValues("audioQuality") : setAudioQuality(v)
    \/ resetToDefaults
    \/ \E name \in QueryNames : Query(name)
    \/ Reload
    \/ ValidationEffect
    \/ ClickStart
    \/ StartSettles
    \/ StartResolved
    \/ StartRejected

Spec == Init /\ [][Next]_vars

\* The continuation of an await is a microtask: once the promise has settled
\* it runs.  Nothing makes the promise settle, and nothing makes the user act.
FairSpec == Spec /\ WF_vars(StartResolved) /\ WF_vars(StartRejected)

(***************************************************************************)
(* Properties.                                                             *)
(***************************************************************************)
\* The field each setter is documented to write.
SetterField ==
    [n \in {"setSelectedProvider", "setOpenapiHost", "setOpenapiCredential",
            "setAuthMethod", "setAvatarId", "setVoiceId", "setKnowledgeId",
            "setSessionDuration", "setModeType", "setLanguage", "setSceneMode",
            "setE2eType", "setBackgroundUrl", "setVoiceUrl", "setVoiceParams",
            "setVideoEnabled", "setAudioEnabled", "setVideoQuality",
            "setAudioQuality"} |->
        CASE n = "setSelectedProvider"  -> "selectedProvider"
          [] n = "setOpenapiHost"       -> "openapiHost"
          [] n = "setOpenapiCredential" -> "openapiCredential"
          [] n = "setAuthMethod"        -> "authMethod"
          [] n = "setAvatarId"          -> "avatarId"
          [] n = "setVoiceId"           -> "voiceId"
          [] n = "setKnowledgeId"       -> "knowledgeId"
          [] n = "setSessionDuration"   -> "sessionDuration"
          [] n = "setModeType"          -> "modeType"
          [] n = "setLanguage"          -> "language"
          [] n = "setSceneMode"         -> "sceneMode"
          [] n = "setE2eType"           -> "e2eType"
          [] n = "setBackgroundUrl"     -> "backgroundUrl"
          [] n = "setVoiceUrl"          -> "voiceUrl"
          [] n = "setVoiceParams"       -> "voiceParams"
          [] n = "setVideoEnabled"      -> "videoEnabled"
          [] n = "setAudioEnabled"      -> "audioEnabled"
          [] n = "setVideoQuality"      -> "videoQuality"
          [] n = "setAudioQuality"      -> "audioQuality"]

SetterNames == DOMAIN SetterField

\* A step that is a call of a setter.
SetterStep == ops' = ops + 1 /\ lastOp'.name \in SetterNames

\* C1: a call setF(V) leaves field F equal to V and every other field (and
\* the set of keys of the state) as it was.
C1_SetterWritesItsFieldOnly ==
    [][SetterStep =>
         LET f == SetterField[lastOp'.name] IN
           /\ DOMAIN state' = DOMAIN state
           /\ state'[f] = lastOp'.arg
           /\ \A g \in DOMAIN state \ {f} : state'[g] = state[g]]_vars

\* C1 witness: setVoiceUrl("vu") has run on a store seeded from the demo
\* environment; voiceUrl is "vu" and the url beside it is still the seed's.
C1_Witness ==
    /\ lastOp.name = "setVoiceUrl"
    /\ lastOp.arg = "vu"
    /\ ops = 2
    /\ state.voiceUrl = "vu"
    /\ state.backgroundUrl = ""
    /\ state.voiceParams = SomeParams

\* The five rules of the validator as the specification lists them: the rank
\* of the rule, its message and whether its condition holds now.
C2_Rules ==
    {[rank |-> 1, msg |-> "OpenAPI host is required",
      holds |-> state.openapiHost = ""],
     [rank |-> 2, msg |-> "OpenAPI token is required",
      holds |-> state.openapiCredential = "" /\ state.authMethod = "token"],
     [rank |-> 2, msg |-> "API key is required",
      holds |-> state.openapiCredential = "" /\ state.authMethod # "token"],
     [rank |-> 3, msg |-> "Avatar ID is required",
      holds |-> state.avatarId = ""],
     [rank |-> 4, msg |-> "Session duration must be greater than 0",
      holds |-> state.sessionDuration.n <= 0],
     [rank |-> 5, msg |-> "Mode type must be between 1 and 3",
      holds |-> state.modeType < 1 \/ state.modeType > 3]}

\* C2: validateConfiguration().errors holds exactly the messages of the rules
\* whose condition holds, each once, in the order of the rules; with host,
\* credential and avatar empty under token authentication it is the first
\* three messages, and with modeType 5 and all else valid the last alone.
C2_ErrorsFollowTheRules ==
    LET errors == validateConfiguration(state).errors
        at(i) == CHOOSE r \in C2_Rules : r.msg = errors[i]
    IN  /\ \A r \in C2_Rules : r.holds <=> \E i \in DOMAIN errors : errors[i] = r.msg
        /\ \A i \in DOMAIN errors : \E r \in C2_Rules : r.msg = errors[i]
        /\ \A i, j \in DOMAIN errors : i < j => at(i).rank < at(j).rank
        /\ (/\ state.openapiHost = "" /\ state.openapiCredential = ""
            /\ state.avatarId = "" /\ state.authMethod = "token"
            /\ state.sessionDuration.n > 0 /\ state.modeType \in 1..3)
           => errors = <<"OpenAPI host is required", "OpenAPI token is required",
                         "Avatar ID is required">>
        /\ (/\ state.openapiHost # "" /\ state.openapiCredential # ""
            /\ state.avatarId # "" /\ state.sessionDuration.n > 0
            /\ state.modeType = 5)
           => errors = <<"Mode type must be between 1 and 3">>

\* C2 witness: on a store seeded valid by the demo environment setModeType(5)
\* has run, and the validator reports the mode-type message alone.
C2_Witness ==
    /\ env = EnvDemo
    /\ lastOp.name = "setModeType"
    /\ state.modeType = 5
    /\ validateConfiguration(state).errors = <<"Mode type must be between 1 and 3">>

\* The payload key of every optional field of the session options.
OptionalKeys ==
    [knowledge_id |-> "knowledgeId", voice_id |-> "voiceId", voice_url |-> "voiceUrl",
     language |-> "language", background_url |-> "backgroundUrl",
     scene_mode |-> "sceneMode", e2e_type |-> "e2eType", voice_params |-> "voiceParams"]

\* An optional field is empty: the empty string, or a mapping with no key.
IsEmpty(f, v) == IF f = "voiceParams" THEN DOMAIN v = {} ELSE v = ""

\* C3: the payload of getSessionOptions() has no key for an optional field
\* whose value in the store is empty, and so no optional key with an empty
\* value.
C3_EmptyOptionalsOmitted ==
    LET options == getSessionOptions(state) IN
      \A k \in DOMAIN OptionalKeys :
        /\ IsEmpty(OptionalKeys[k], state[OptionalKeys[k]]) => k \notin DOMAIN options
        /\ k \in DOMAIN options => ~IsEmpty(OptionalKeys[k], options[k])

\* C3 witness: a store with every optional field empty after the user cleared
\* the language; the payload is the four required keys.
C3_Witness ==
    /\ lastOp.name = "setLanguage"
    /\ \A k \in DOMAIN OptionalKeys : IsEmpty(OptionalKeys[k], state[OptionalKeys[k]])
    /\ DOMAIN getSessionOptions(state) = {"avatar_id", "duration", "mode_type", "stream_type"}

\* C4 (as claimed): startStreaming is only ever called in a state that is
\* fully configured and that a fresh validateConfiguration() finds valid.
C4_StartOnlyWhenValid ==
    lastOp.name = "startStreaming" =>
        isFullyConfigured(state) /\ validateConfiguration(state).isValid

\* C5 (as claimed): the five enumerated fields hold one of their enumerated
\* values in every reachable state.
C5_AlwaysEnumerated ==
    /\ state.selectedProvider \in {"agora", "livekit", "trtc"}
    /\ state.authMethod \in {"token", "apiKey"}
    /\ state.modeType \in {1, 2, 3}
    /\ state.videoQuality \in {"low", "medium", "high"}
    /\ state.audioQuality \in {"low", "medium", "high"}

\* C5 (amended): authMethod and the two qualities always hold an enumerated
\* value; the provider holds one or the VITE_STREAM_TYPE it was seeded with;
\* modeType is unconstrained, and the validator reports it outside 1..3.
C5_EnumeratedWhereTyped ==
    /\ state.authMethod \in {"token", "apiKey"}
    /\ state.videoQuality \in {"low", "medium", "high"}
    /\ state.audioQuality \in {"low", "medium", "high"}
    /\ state.selectedProvider \in {"agora", "livekit", "trtc", env.VITE_STREAM_TYPE}
    /\ state.modeType \notin {1, 2, 3} =>
         \E i \in DOMAIN validateConfiguration(state).errors :
            validateConfiguration(state).errors[i] = "Mode type must be between 1 and 3"

\* C5 witness: after resetToDefaults and setModeType(0) the mode is outside its
\* range while the typed fields hold their defaults.
C5_Witness ==
    /\ lastOp.name = "setModeType"
    /\ lastOp.arg = 0
    /\ state.modeType = 0
    /\ writes = 2
    /\ state.videoQuality = "medium"
    /\ state.selectedProvider = "agora"

\* The literal defaults as the specification lists them.
LiteralDefaults ==
    [selectedProvider |-> "agora", openapiHost |-> "", openapiCredential |-> "",
     authMethod |-> "token", avatarId |-> "", voiceId |-> "", knowledgeId |-> "",
     sessionDuration |-> Num(10), modeType |-> 2, language |-> "en", sceneMode |-> "",
     e2eType |-> "", backgroundUrl |-> "", voiceUrl |-> "",
     voiceParams |-> [k \in {} |-> 0], videoEnabled |-> TRUE, audioEnabled |-> TRUE,
     videoQuality |-> "medium", audioQuality |-> "medium"]

\* C6: resetToDefaults() leaves each of the 19 fields at its literal default,
\* whatever the environment and the state before; a second call in a row
\* leaves the state of the first.
C6_ResetToLiteralDefaults ==
    [][(ops' = ops + 1 /\ lastOp'.name = "resetToDefaults") =>
          /\ \A f \in Fields : state'[f] = LiteralDefaults[f]
          /\ lastOp.name = "resetToDefaults" => state' = state]_vars

\* C6 witness: resetToDefaults() has run, as the second operation, on a store
\* the demo environment had seeded with other values.
C6_Witness ==
    /\ lastOp.name = "resetToDefaults"
    /\ env = EnvDemo
    /\ InitialState(env).openapiHost = "h"
    /\ writes = 2
    /\ state.openapiHost = ""
    /\ state.language = "en"
    /\ state.selectedProvider = "agora"

C8_OneWritePerMutation ==
    [][(/\ ops' = ops + 1
        /\ lastOp'.name \in SetterNames \cup {"resetToDefaults"}) =>
          /\ writes' = writes + 1
          /\ ~lastOp'.threw =>
               /\ storage'.kind = "json"
               /\ DOMAIN storage'.doc = Fields
               /\ \A f \in Fields : JsonParse(storage'.doc)[f] = state'[f]]_vars

\* C8 witness: setOpenapiHost("h") on a store whose host was "h" already, and
\* the one write it issued.
C8_Witness ==
    /\ lastOp.name = "setOpenapiHost"
    /\ lastOp.arg = "h"
    /\ ~lastOp.threw
    /\ InitialState(env).openapiHost = "h"
    /\ loaded = ItemAbsent
    /\ ops = 1
    /\ writes = 1
    /\ storage = setItem(state)

\* The environment variable that seeds each field, where there is one.
EnvVarOf ==
    [selectedProvider |-> "VITE_STREAM_TYPE", openapiHost |-> "VITE_OPENAPI_HOST",
     openapiCredential |-> "VITE_OPENAPI_TOKEN", avatarId |-> "VITE_AVATAR_ID",
     voiceId |-> "VITE_VOICE_ID", modeType |-> "VITE_MODE_TYPE",
     language |-> "VITE_LANGUAGE", backgroundUrl |-> "VITE_BACKGROUND_URL",
     voiceUrl |-> "VITE_VOICE_URL"]

\* A field's environment value is set: a non-empty string, and for modeType one
\* that converts to a number other than 0.
EnvIsSet(f) ==
    /\ f \in DOMAIN EnvVarOf
    /\ IF f = "modeType"
       THEN ~NumberOf(env[EnvVarOf[f]]).nan /\ NumberOf(env[EnvVarOf[f]]).n # 0
       ELSE env[EnvVarOf[f]] # ""

\* The value a field has at process start by the stated precedence.
SeedByPrecedence(f) ==
    IF loaded.kind = "json" /\ f \in DOMAIN loaded.doc
    THEN JsonParse(loaded.doc)[f]
    ELSE IF EnvIsSet(f)
         THEN IF f = "modeType" THEN NumberOf(env[EnvVarOf[f]]).n ELSE env[EnvVarOf[f]]
         ELSE LiteralDefaults[f]

\* C9: at process start each field holds the stored snapshot's value if the
\* snapshot has the field, else the environment's value if set, else the
\* literal default.
C9_SeedPrecedence ==
    lastOp.name = "create" => \A f \in Fields : state[f] = SeedByPrecedence(f)

\* C9 witness: a start over an older, partial snapshot in the demo
\* environment: host from the snapshot, an empty language from the snapshot
\* over the environment's "zh", voice from the environment, knowledge base
\* from the literal default.
C9_Witness ==
    /\ lastOp.name = "create"
    /\ env = EnvDemo
    /\ loaded = ItemOf(Restrict(SavedDoc, OldKeys))
    /\ state.openapiHost = "h"
    /\ state.language = ""
    /\ state.modeType = 3
    /\ state.voiceId = "v1"
    /\ state.selectedProvider = "livekit"
    /\ state.knowledgeId = ""

\* C10 (as claimed): after a start the state has no key beyond the 19 fields,
\* and the fields are seeded as from the snapshot without its unknown keys.
C10_UnknownKeysDropped ==
    (lastOp.name = "create" /\ loaded.kind = "json") =>
        /\ DOMAIN state \subseteq Fields
        /\ \A f \in Fields :
             state[f] = hydrate(env, ItemOf(Restrict(loaded.doc, Fields)))[f]

\* C10 (amended): after a start the 19 fields are seeded as from the snapshot
\* without its unknown keys; the unknown keys stay on the state object, and no
\* snapshot the store writes holds them.
C10_UnknownKeysInert ==
    /\ (lastOp.name = "create" /\ loaded.kind = "json") =>
          /\ \A f \in Fields :
               state[f] = hydrate(env, ItemOf(Restrict(loaded.doc, Fields)))[f]
          /\ DOMAIN state = Fields \cup DOMAIN loaded.doc
    /\ (lastOp.name \in SetterNames \cup {"resetToDefaults"} /\ ~lastOp.threw) =>
          DOMAIN storage.doc = Fields

\* C10 witness: a start over a snapshot with the keys "theme" and
\* "avatarVideoUrl": the fields come from the snapshot and "theme" is a key of
\* the state.
C10_Witness ==
    /\ lastOp.name = "create"
    /\ loaded = ItemOf(Merge(SavedDoc, UnknownDoc))
    /\ "theme" \in DOMAIN state
    /\ state.openapiHost = "h"
    /\ state.videoQuality = "high"

\* C11: when the stored item is absent or does not parse at process start,
\* every field holds its environment or default seed, the creation raises
\* nothing, and the setters, resetToDefaults() and the queries called
\* afterwards do what they do on any store.
C11_NoSnapshotFallsToSeed ==
    loaded.kind # "json" =>
        /\ DOMAIN state = Fields
        /\ lastOp.name = "create" =>
              /\ ~lastOp.threw
              /\ \A f \in Fields : state[f] = SeedByPrecedence(f)
        /\ lastOp.name \in SetterNames =>
              state[SetterField[lastOp.name]] = lastOp.arg
        /\ lastOp.name = "resetToDefaults" =>
              \A f \in Fields : state[f] = LiteralDefaults[f]
        /\ lastOp.name \in QueryNames =>
              lastOp.arg = QueryResult(lastOp.name, state)

\* C11 witness: the process started over an item that does not parse, in an
\* environment that sets the host, and setAvatarId("av1") has since run: the
\* store is the seed with that one edit.
C11_Witness ==
    /\ loaded = ItemCorrupt
    /\ env = EnvOdd
    /\ lastOp.name = "setAvatarId"
    /\ lastOp.arg = "av1"
    /\ ~lastOp.threw
    /\ state.openapiHost = "h"
    /\ state.modeType = 5
    /\ state.avatarId = "av1"
    /\ storage = setItem(state)

\* C12 (as claimed): whenever a setter or resetToDefaults() has run, the
\* in-memory change has taken effect and the call raised nothing to its
\* caller, whether or not the durable write succeeded.
C12_WriteFailureInvisible ==
    lastOp.name \in SetterNames \cup {"resetToDefaults"} =>
        /\ lastOp.name \in SetterNames =>
              state[SetterField[lastOp.name]] = lastOp.arg
        /\ lastOp.name = "resetToDefaults" =>
              \A f \in Fields : state[f] = LiteralDefaults[f]
        /\ ~lastOp.threw

\* C13 (as claimed): whenever validateConfiguration().isValid is true,
\* sessionDuration is a positive integer.
C13_ValidMeansPositiveInteger ==
    validateConfiguration(state).isValid =>
        IsInteger(state.sessionDuration) /\ state.sessionDuration.n > 0

\* C14: isFullyConfigured() is true exactly when isApiConfigured() and
\* isAvatarConfigured() both are; isApiConfigured() exactly when host and
\* credential are both non-empty; isAvatarConfigured() exactly when the avatar
\* id is non-empty.
C14_FullyIffApiAndAvatar ==
    /\ isFullyConfigured(state) <=> (isApiConfigured(state) /\ isAvatarConfigured(state))
    /\ isApiConfigured(state) <=> (state.openapiHost # "" /\ state.openapiCredential # "")
    /\ isAvatarConfigured(state) <=> state.avatarId # ""

\* C14 witness: the avatar id was cleared on a store whose host and credential
\* are set: configured for the API, not fully.
C14_Witness ==
    /\ lastOp.name = "setAvatarId"
    /\ lastOp.arg = ""
    /\ state.openapiHost = "h"
    /\ state.openapiCredential = "c"
    /\ isApiConfigured(state)
    /\ ~isAvatarConfigured(state)
    /\ ~isFullyConfigured(state)

\* C15: the payload of getSessionOptions() always has avatar_id, duration,
\* mode_type and stream_type with the values of avatarId, sessionDuration,
\* modeType and selectedProvider, and for every optional field that is not
\* empty its key with the value stored.
C15_OptionsCarryTheFields ==
    LET options == getSessionOptions(state) IN
      /\ {"avatar_id", "duration", "mode_type", "stream_type"} \subseteq DOMAIN options
      /\ options.avatar_id = state.avatarId
      /\ options.duration = state.sessionDuration
      /\ options.mode_type = state.modeType
      /\ options.stream_type = state.selectedProvider
      /\ \A k \in DOMAIN OptionalKeys :
            ~IsEmpty(OptionalKeys[k], state[OptionalKeys[k]]) =>
                k \in DOMAIN options /\ options[k] = state[OptionalKeys[k]]

\* C15 witness: the avatar id was cleared on the store the demo environment
\* seeded: avatar_id is in the payload, empty, beside the voice url.
C15_Witness ==
    /\ lastOp.name = "setAvatarId"
    /\ lastOp.arg = ""
    /\ env = EnvDemo
    /\ "avatar_id" \in DOMAIN getSessionOptions(state)
    /\ getSessionOptions(state).avatar_id = ""
    /\ getSessionOptions(state).voice_url = "vu"
    /\ getSessionOptions(state).voice_id = "v1"

\* The state of Scenario D: the five named fields as given, any provider,
\* every other field at its default.
ScenarioD ==
    /\ state.avatarId = "av1"
    /\ state.sessionDuration = Num(10)
    /\ state.modeType = 2
    /\ state.voiceId = ""
    /\ state.knowledgeId = ""
    /\ \A f \in Fields \ {"avatarId", "sessionDuration", "modeType", "voiceId",
                            "knowledgeId", "selectedProvider", "language"} :
          state[f] = LiteralDefaults[f]

\* C16 (as claimed): in the state of Scenario D with the language at its
\* default, the payload is exactly avatar_id, duration, mode_type and
\* stream_type.
C16_ScenarioD_FourKeys ==
    (ScenarioD /\ state.language = LiteralDefaults.language) =>
        getSessionOptions(state) =
            [avatar_id |-> "av1", duration |-> Num(10), mode_type |-> 2,
             stream_type |-> state.selectedProvider]

\* C16 (amended): in the state of Scenario D the payload is those four keys
\* and, the default language "en" not being empty, language; it is the four
\* keys alone once the language has been cleared.
C16_ScenarioD_WithLanguage ==
    /\ (ScenarioD /\ state.language = "en") =>
          getSessionOptions(state) =
              [avatar_id |-> "av1", duration |-> Num(10), mode_type |-> 2,
               stream_type |-> state.selectedProvider, language |-> "en"]
    /\ (ScenarioD /\ state.language = "") =>
          getSessionOptions(state) =
              [avatar_id |-> "av1", duration |-> Num(10), mode_type |-> 2,
               stream_type |-> state.selectedProvider]

\* C16 witness: setAvatarId("av1") on a store of defaults: Scenario D, with
\* the language the store starts with.
C16_Witness ==
    /\ lastOp.name = "setAvatarId"
    /\ lastOp.arg = "av1"
    /\ env = EnvUnset
    /\ loaded = ItemAbsent
    /\ ScenarioD
    /\ state.language = "en"
    /\ DOMAIN getSessionOptions(state) =
          {"avatar_id", "duration", "mode_type", "stream_type", "language"}

\* C17: validateConfiguration() returns a record of isValid, a boolean, and
\* errors, a sequence of the validator's messages, and isValid is true
\* exactly when errors is empty.
C17_ValidIffNoErrors ==
    LET result == validateConfiguration(state) IN
      /\ DOMAIN result = {"isValid", "errors"}
      /\ result.isValid \in BOOLEAN
      /\ DOMAIN result.errors = 1..Len(result.errors)
      /\ \A i \in DOMAIN result.errors :
            result.errors[i] \in {"OpenAPI host is required", "OpenAPI token is required",
                                  "API key is required", "Avatar ID is required",
                                  "Session duration must be greater than 0",
                                  "Mode type must be between 1 and 3"}
      /\ result.isValid <=> result.errors = <<>>

\* C17 witness: setModeType(0) on the store the demo environment seeded valid:
\* one error, and isValid false.
C17_Witness ==
    /\ lastOp.name = "setModeType"
    /\ lastOp.arg = 0
    /\ env = EnvDemo
    /\ loaded = ItemAbsent
    /\ Len(validateConfiguration(state).errors) = 1
    /\ ~validateConfiguration(state).isValid

\* C18 (as claimed): once the panel's effects have run after a setter, the
\* errors the panel holds are those validateConfiguration() returns now.
C18_DisplayedErrorsAreCurrent ==
    (lastOp.name \in SetterNames /\ ~effectPending) =>
        validationErrors = validateConfiguration(state).errors

\* C19: a call of a derived query leaves the state, the stored item and the
\* number of writes as they were and returns the value the state determines;
\* called again straight after itself it returns the same value.
C19_QueriesArePure ==
    [][(ops' = ops + 1 /\ lastOp'.name \in QueryNames) =>
          /\ state' = state
          /\ storage' = storage
          /\ writes' = writes
          /\ lastOp.name = lastOp'.name => lastOp'.arg = lastOp.arg]_vars

\* C19 witness: validateConfiguration() was called as the second operation on
\* a store of defaults, nothing was written, and the state is the one the
\* process started with.
C19_Witness ==
    /\ lastOp.name = "validateConfiguration"
    /\ ops = 2
    /\ writes = 0
    /\ env = EnvUnset
    /\ storage = ItemAbsent
    /\ state = InitialState(env)
    /\ Len(lastOp.arg.errors) = 3

\* The messages of a sequence of errors without the duration message.
WithoutDuration(errors) ==
    SelectSeq(errors, LAMBDA m : m # "Session duration must be greater than 0")

\* C20: setSessionDuration(0) leaves validateConfiguration() reporting the
\* duration message; setSessionDuration(1) called right after it leaves the
\* errors as they were without that message, in the same order, and every
\* other field as it was.
C20_DurationFlagClears ==
    [][(ops' = ops + 1 /\ lastOp'.name = "setSessionDuration") =>
          /\ lastOp'.arg = Num(0) =>
                \E i \in DOMAIN validateConfiguration(state').errors :
                    validateConfiguration(state').errors[i] =
                        "Session duration must be greater than 0"
          /\ (/\ lastOp'.arg = Num(1)
              /\ lastOp.name = "setSessionDuration"
              /\ lastOp.arg = Num(0)) =>
                /\ validateConfiguration(state').errors =
                      WithoutDuration(validateConfiguration(state).errors)
                /\ Len(validateConfiguration(state').errors) =
                      Len(validateConfiguration(state).errors) - 1
                /\ \A f \in DOMAIN state \ {"sessionDuration"} : state'[f] = state[f]]_vars

\* C20 witness: setSessionDuration(1) ran as the second of two writes on a
\* store of defaults: the three messages about host, token and avatar
\* remain and the duration message is not among them.
C20_Witness ==
    /\ lastOp.name = "setSessionDuration"
    /\ lastOp.arg = Num(1)
    /\ ops = 2
    /\ writes = 2
    /\ env = EnvUnset
    /\ state = Merge(InitialState(env), [sessionDuration |-> Num(1)])
    /\ validateConfiguration(state).errors =
          <<"OpenAPI host is required", "OpenAPI token is required",
            "Avatar ID is required">>

\* C24: isStarting becomes true only in handleStartStreaming, and only when
\* the store is fully configured and the panel holds no validation error;
\* when the awaited promise has settled the handler's continuation leaves
\* isStarting false, a rejection adding one error notification and raising
\* nothing; and once the promise has settled isStarting does become false.
C24_StartAlwaysCompletes ==
    /\ [][/\ (isStarting' /\ ~isStarting) =>
                /\ lastOp'.name = "startStreaming"
                /\ isFullyConfigured(state)
                /\ Len(validationErrors) = 0
          /\ (startPromise \in {"fulfilled", "rejected"} /\ startPromise' # startPromise) =>
                ~isStarting'
          /\ (startPromise = "rejected" /\ lastOp'.name = "startRejected") =>
                /\ notifications' = notifications + 1
                /\ ~lastOp'.threw]_vars
    /\ (startPromise \in {"fulfilled", "rejected"}) ~> ~isStarting

\* C24 witness: startStreaming() was called once and rejected; the handler
\* has run its catch and finally: one notification, isStarting false again
\* and the Start button enabled.
C24_Witness ==
    /\ lastOp.name = "startRejected"
    /\ writable
    /\ startCalls = 1
    /\ notifications = 1
    /\ startPromise = "none"
    /\ ~isStarting
    /\ ~StartDisabled

\* C21: setSceneMode leaves e2eType as it was and setE2eType leaves sceneMode
\* as it was; in every state validateConfiguration() returns what it returns
\* for the same state with the pair set to fast_dialogue and openai, so a
\* state with e2eType "openai" and sceneMode "meeting" or "" gets no error
\* of its own; and whenever e2eType is "openai" the payload of
\* getSessionOptions() carries e2e_type "openai", whatever the scene mode.
C21_CouplingNotEnforced ==
    /\ [][/\ (ops' = ops + 1 /\ lastOp'.name = "setSceneMode") =>
                state'.e2eType = state.e2eType
          /\ (ops' = ops + 1 /\ lastOp'.name = "setE2eType") =>
                state'.sceneMode = state.sceneMode]_vars
    /\ [](/\ validateConfiguration(state) =
               validateConfiguration([state EXCEPT !.sceneMode = "fast_dialogue",
                                                  !.e2eType = "openai"])
          /\ state.e2eType = "openai" =>
                /\ "e2e_type" \in DOMAIN getSessionOptions(state)
                /\ getSessionOptions(state).e2e_type = "openai")

\* C21 witness: on a store started with no stored item, setE2eType("openai")
\* ran after setSceneMode("meeting"): the pair is openai with meeting, the
\* store is valid and the payload carries both.
C21_Witness ==
    /\ loaded = ItemAbsent
    /\ env = EnvDemo
    /\ lastOp.name = "setE2eType"
    /\ lastOp.arg = "openai"
    /\ ops = 2
    /\ state.e2eType = "openai"
    /\ state.sceneMode = "meeting"
    /\ validateConfiguration(state).errors = <<>>
    /\ getSessionOptions(state).e2e_type = "openai"
    /\ getSessionOptions(state).scene_mode = "meeting"

\* C22: whenever validateConfiguration().isValid is true, isFullyConfigured()
\* is true.
C22_ValidImpliesFullyConfigured ==
    validateConfiguration(state).isValid => isFullyConfigured(state)

\* C22 witness: setAvatarId("av1") completed a store that had host and
\* credential from a stored snapshot: valid, and fully configured.
C22_Witness ==
    /\ lastOp.name = "setAvatarId"
    /\ lastOp.arg = "av1"
    /\ ~lastOp.threw
    /\ env = EnvUnset
    /\ loaded.kind = "json"
    /\ validateConfiguration(state).isValid
    /\ isFullyConfigured(state)

\* The fields getSessionOptions does not read, each at a fixed value.
NotInOptions ==
    [openapiHost |-> "", openapiCredential |-> "", authMethod |-> "token",
     videoEnabled |-> TRUE, audioEnabled |-> TRUE, videoQuality |-> "medium",
     audioQuality |-> "medium"]

\* C23: the payload of getSessionOptions() is the one of the same state with
\* host, credential, authentication method, media toggles and qualities
\* replaced by fixed values, so two states that agree on the other twelve
\* fields have equal payloads; the payload has no key beyond the twelve of
\* the options, and none of its text values is the credential.
C23_OptionsIgnoreCredentials ==
    LET options == getSessionOptions(state) IN
      /\ options = getSessionOptions(Merge(state, NotInOptions))
      /\ DOMAIN options \subseteq
            {"avatar_id", "duration", "knowledge_id", "voice_id", "voice_url",
             "language", "mode_type", "background_url", "voice_params",
             "stream_type", "scene_mode", "e2e_type"}
      /\ state.openapiCredential # "" =>
            \A k \in DOMAIN options \ {"duration", "mode_type", "voice_params"} :
                options[k] # state.openapiCredential

\* C23 witness: setOpenapiCredential("c") on a store of defaults: the state
\* changed, the payload is the one of the state before.
C23_Witness ==
    /\ lastOp.name = "setOpenapiCredential"
    /\ lastOp.arg = "c"
    /\ ~lastOp.threw
    /\ env = EnvUnset
    /\ loaded = ItemAbsent
    /\ ops = 1
    /\ state # InitialState(env)
    /\ getSessionOptions(state) = getSessionOptions(InitialState(env))

=============================================================================
